---------------------------- MODULE Spec2Model ----------------------------
(***************************************************************************)
(* Model of the two scripts of bndtools.grpc:                              *)
(*   grpc_protoc.py      the protoc wrapper that patches sys.path          *)
(*   run_grpc_server.py  the health-check gRPC server                      *)
(*                                                                         *)
(* A Python str is modelled as a sequence of one-character strings, so     *)
(* that startswith, slicing, concatenation and os.path.abspath are         *)
(* computed character by character, as the interpreter computes them.      *)
(* os.path is modelled as posixpath.                                       *)
(***************************************************************************)
EXTENDS Integers, Sequences, FiniteSets, TLC

VARIABLES
    argv,        \* sys.argv of the wrapper process
    cwd,         \* os.getcwd() of the wrapper process
    syspath,     \* sys.path of the wrapper process
    wpc,         \* position of the wrapper's main script
    idx,         \* position of the for loop over sys.argv (1-based)
    protocCalls, \* the argument lists protoc.main has been invoked with
    protocRet,   \* the value protoc.main returned
    exitStatus,  \* exit status of the wrapper process
    userArgs,    \* history: the arguments given to the wrapper
    syspath0,    \* history: sys.path at process start
    called,      \* history: the new_path of every add_to_python_path call
    spc,         \* position of serve() in the server process
    server,      \* the grpc server object: none, created, started, terminated
    handlers,    \* the servicers registered with the server
    ports,       \* the ports added to the server
    calls,       \* the RPCs in progress: position in Check and the request
    results      \* the result object of each execution of Check

wvars == <<argv, cwd, syspath, wpc, idx, protocCalls, protocRet, exitStatus,
           userArgs, syspath0, called>>

svars == <<spc, server, handlers, ports, calls, results>>

vars == <<wvars, svars>>

---------------------------------------------------------------------------
\* Bounds of the model

\* longest argument list given to the wrapper
MaxArgs == 2

\* number of RPCs that may be in progress at once
MaxCalls == 2

\* longest request_message
MaxMsgLen == 1

---------------------------------------------------------------------------
\* Python str and list operations used by grpc_protoc.py

\* item.startswith(prefix)
startswith(item, prefix) ==
    /\ Len(item) >= Len(prefix)
    /\ SubSeq(item, 1, Len(prefix)) = prefix

\* item.endswith(suffix)
endswith(item, suffix) ==
    /\ Len(item) >= Len(suffix)
    /\ SubSeq(item, Len(item) - Len(suffix) + 1, Len(item)) = suffix

\* item[n:]
SliceFrom(item, n) == SubSeq(item, n + 1, Len(item))

\* x in lst
In(x, lst) == \E i \in 1..Len(lst) : lst[i] = x

sep == <<"/">>
dot == <<".">>
dotdot == <<".", ".">>

\* path.split('/')
RECURSIVE split(_)
split(path) ==
    IF \E i \in 1..Len(path) : path[i] = "/"
    THEN LET i == CHOOSE k \in 1..Len(path) :
                     /\ path[k] = "/"
                     /\ \A j \in 1..(k - 1) : path[j] # "/"
         IN  <<SubSeq(path, 1, i - 1)>> \o split(SubSeq(path, i + 1, Len(path)))
    ELSE <<path>>

\* '/'.join(comps)
RECURSIVE sepjoin(_)
sepjoin(comps) ==
    IF Len(comps) = 0 THEN <<>>
    ELSE IF Len(comps) = 1 THEN comps[1]
    ELSE comps[1] \o sep \o sepjoin(Tail(comps))

\* posixpath.join(a, b)
join(a, b) ==
    IF startswith(b, sep) THEN b
    ELSE IF Len(a) = 0 \/ endswith(a, sep) THEN a \o b
    ELSE a \o sep \o b

\* the loop of posixpath.normpath over the components
RECURSIVE normcomps(_, _, _)
normcomps(comps, new_comps, initial_slashes) ==
    IF Len(comps) = 0 THEN new_comps
    ELSE LET comp == Head(comps)
             n == Len(new_comps)
         IN  IF comp = <<>> \/ comp = dot
             THEN normcomps(Tail(comps), new_comps, initial_slashes)
             ELSE IF \/ comp # dotdot
                     \/ (initial_slashes = 0 /\ n = 0)
                     \/ (n > 0 /\ new_comps[n] = dotdot)
             THEN normcomps(Tail(comps), Append(new_comps, comp), initial_slashes)
             ELSE IF n > 0
             THEN normcomps(Tail(comps), SubSeq(new_comps, 1, n - 1), initial_slashes)
             ELSE normcomps(Tail(comps), new_comps, initial_slashes)

\* posixpath.normpath(path)
normpath(path) ==
    IF Len(path) = 0 THEN dot
    ELSE LET initial_slashes ==
                 IF ~startswith(path, sep) THEN 0
                 ELSE IF startswith(path, sep \o sep)
                         /\ ~startswith(path, sep \o sep \o sep) THEN 2
                 ELSE 1
             joined == sepjoin(normcomps(split(path), <<>>, initial_slashes))
             result == IF initial_slashes = 2 THEN sep \o sep \o joined
                       ELSE IF initial_slashes = 1 THEN sep \o joined
                       ELSE joined
         IN  IF Len(result) = 0 THEN dot ELSE result

\* os.path.abspath(path), relative to the process's working directory
abspath(path) ==
    normpath(IF startswith(path, sep) THEN path ELSE join(cwd, path))

---------------------------------------------------------------------------
\* The inputs of the wrapper process

\* the arguments a caller may give: -I<path> in several spellings of the same
\* directory, a bare -I, another option and a file name
ArgStrings ==
    { <<"-", "I", "a">>,
      <<"-", "I", ".", "/", "a">>,
      <<"-", "I", "/", "a">>,
      <<"-", "I">>,
      <<"-", "I", "a", "/", ".", ".">>,
      <<"-", "x">>,
      <<"x">> }

\* sys.argv[0]: the script's name as given to the interpreter
ProgNames == { <<"p">>, <<"-", "I", "p">> }

\* working directories: absolute, normalised
WorkDirs == { <<"/", "w">>, <<"/">> }

\* sys.path at process start: absolute entries, free of duplicates
\* (site.removeduppaths), the script's directory first
InitialPaths ==
    { << <<"/", "s">> >>,
      << <<"/", "s">>, <<"/", "a">> >>,
      << <<"/", "s">>, <<"/", "w">>, <<"/", "w", "/", "a">> >> }

ArgLists == UNION { [1..n -> ArgStrings] : n \in 0..MaxArgs }

\* the values protoc.main may return: the compiler's status
ReturnValues == {0, 1, 2}

NoValue == -1

---------------------------------------------------------------------------
\* grpc_protoc.py

\* a marker test that looks at the dash alone
IsIncludeArg_dashOnly(item) == startswith(item, <<"-">>)

\* item.startswith('-I')
IsIncludeArg(item) == startswith(item, <<"-", "I">>)

\* add_to_python_path without the membership test
add_to_python_path_noCheck(new_path) ==
    /\ syspath' = Append(syspath, abspath(new_path))
    /\ called' = Append(called, new_path)

\* add_to_python_path that appends new_path as given, not its absolute form
add_to_python_path_raw(new_path) ==
    /\ syspath' = IF ~In(new_path, syspath)
                      THEN Append(syspath, new_path)
                      ELSE syspath
    /\ called' = Append(called, new_path)

\* add_to_python_path that puts the new entry first: sys.path.insert(0, ...)
add_to_python_path_front(new_path) ==
    /\ syspath' = IF ~In(abspath(new_path), syspath)
                      THEN <<abspath(new_path)>> \o syspath
                      ELSE syspath
    /\ called' = Append(called, new_path)

\* add_to_python_path(new_path)
add_to_python_path(new_path) ==
    LET existing_path == syspath
        absolute_path == abspath(new_path)
    IN  /\ syspath' = IF ~In(absolute_path, existing_path)
                      THEN Append(syspath, absolute_path)
                      ELSE syspath
        /\ called' = Append(called, new_path)

\* the list the main script iterates over: for item in sys.argv
ScannedItems == argv

\* protoc.main handed the whole of sys.argv
ProtocArguments_wholeArgv == argv

\* the arguments handed to protoc.main: sys.argv[1:]
ProtocArguments == SliceFrom(argv, 1)

\* the status the interpreter exits with once the script has run to its end:
\* the value of protoc.main(...) is an expression statement, not passed on
ScriptExitStatus == 0

WInit ==
    /\ userArgs \in ArgLists
    /\ \E prog \in ProgNames : argv = <<prog>> \o userArgs
    /\ cwd \in WorkDirs
    /\ syspath0 \in InitialPaths
    /\ syspath = syspath0
    /\ wpc = "scan"
    /\ idx = 1
    /\ protocCalls = <<>>
    /\ protocRet = NoValue
    /\ exitStatus = NoValue
    /\ called = <<>>

\* one iteration of: for item in sys.argv: if item.startswith('-I'): ...
ScanItem ==
    /\ wpc = "scan"
    /\ idx <= Len(ScannedItems)
    /\ LET item == ScannedItems[idx]
       IN  IF IsIncludeArg(item)
           THEN add_to_python_path(SliceFrom(item, 2))
           ELSE UNCHANGED <<syspath, called>>
    /\ idx' = idx + 1
    /\ UNCHANGED <<argv, cwd, wpc, protocCalls, protocRet, exitStatus,
                   userArgs, syspath0>>
    /\ UNCHANGED svars

\* the loop is over: protoc.main(sys.argv[1:]) is entered
CallProtoc ==
    /\ wpc = "scan"
    /\ idx > Len(ScannedItems)
    /\ protocCalls' = Append(protocCalls, ProtocArguments)
    /\ wpc' = "in_protoc"
    /\ UNCHANGED <<argv, cwd, syspath, idx, protocRet, exitStatus,
                   userArgs, syspath0, called>>
    /\ UNCHANGED svars

\* protoc.main returns the compiler's status r
ProtocReturn(r) ==
    /\ wpc = "in_protoc"
    /\ protocRet' = r
    /\ wpc' = "returned"
    /\ UNCHANGED <<argv, cwd, syspath, idx, protocCalls, exitStatus,
                   userArgs, syspath0, called>>
    /\ UNCHANGED svars

\* the script has run to its end: the process exits
ScriptEnd ==
    /\ wpc = "returned"
    /\ exitStatus' = ScriptExitStatus
    /\ wpc' = "exited"
    /\ UNCHANGED <<argv, cwd, syspath, idx, protocCalls, protocRet,
                   userArgs, syspath0, called>>
    /\ UNCHANGED svars

WNext ==
    \/ ScanItem
    \/ CallProtoc
    \/ \E r \in ReturnValues : ProtocReturn(r)
    \/ ScriptEnd

---------------------------------------------------------------------------
\* run_grpc_server.py

\* futures.ThreadPoolExecutor(max_workers=10)
max_workers == 10

\* server.add_insecure_port("[::]:50051")
Port == 50051

CallIds == 1..MaxCalls

MsgChars == {"p", "q"}

\* the request_message values a client may send
Messages == UNION { [1..n -> MsgChars] : n \in 0..MaxMsgLen }

\* "Hello request_message="
Greeting ==
    <<"H", "e", "l", "l", "o", " ", "r", "e", "q", "u", "e", "s", "t", "_",
      "m", "e", "s", "s", "a", "g", "e", "=">>

\* no result object
NoResult == [status |-> "none", response_message |-> <<>>]

\* HealthCheckResponse(): the fields at their defaults
NewResponse == [status |-> "default", response_message |-> <<>>]

\* the request_message written second, the greeting after it
ResponseMessage_reversed(request_message) == request_message \o Greeting

\* "Hello request_message=" + request.request_message
ResponseMessage(request_message) == Greeting \o request_message

\* one result object shared by every execution of Check
ResultSlot_shared(c) == 1

\* result is a local of Check: each execution has its own object
ResultSlot(c) == c

\* the executions of Check occupying a worker of the pool
Executing == {c \in CallIds : calls[c].pc \in {"l16", "l17", "l18", "l19"}}

ServerOff ==
    /\ spc = "off"
    /\ server = "none"
    /\ handlers = {}
    /\ ports = {}
    /\ calls = [c \in CallIds |-> [pc |-> "idle", request |-> <<>>]]
    /\ results = [c \in CallIds |-> NoResult]

WrapperOff ==
    /\ argv = <<>>
    /\ cwd = <<"/">>
    /\ syspath = <<>>
    /\ wpc = "off"
    /\ idx = 1
    /\ protocCalls = <<>>
    /\ protocRet = NoValue
    /\ exitStatus = NoValue
    /\ userArgs = <<>>
    /\ syspath0 = <<>>
    /\ called = <<>>

SInit ==
    /\ spc = "l22"
    /\ server = "none"
    /\ handlers = {}
    /\ ports = {}
    /\ calls = [c \in CallIds |-> [pc |-> "idle", request |-> <<>>]]
    /\ results = [c \in CallIds |-> NoResult]

\* server = grpc.server(futures.ThreadPoolExecutor(max_workers=10))
ServeCreateServer ==
    /\ spc = "l22"
    /\ server' = "created"
    /\ spc' = "l23"
    /\ UNCHANGED <<handlers, ports, calls, results>>
    /\ UNCHANGED wvars

\* health_grpc.add_HealthCheckServicer_to_server(HealthCheckServicer(), server)
ServeAddServicer ==
    /\ spc = "l23"
    /\ handlers' = handlers \cup {"HealthCheck"}
    /\ spc' = "l24"
    /\ UNCHANGED <<server, ports, calls, results>>
    /\ UNCHANGED wvars

\* server.add_insecure_port("[::]:50051"): the port is bound
ServeAddPort ==
    /\ spc = "l24"
    /\ ports' = ports \cup {Port}
    /\ spc' = "l25"
    /\ UNCHANGED <<server, handlers, calls, results>>
    /\ UNCHANGED wvars

\* server.add_insecure_port("[::]:50051"): the bind fails and the call raises
ServeAddPortFails ==
    /\ spc = "l24"
    /\ spc' = "raised"
    /\ UNCHANGED <<server, handlers, ports, calls, results>>
    /\ UNCHANGED wvars

\* server.start()
ServeStart ==
    /\ spc = "l25"
    /\ server' = "started"
    /\ spc' = "l26"
    /\ UNCHANGED <<handlers, ports, calls, results>>
    /\ UNCHANGED wvars

\* wait_for_termination that does not wait
ServeWait_noBlock ==
    /\ spc = "l26"
    /\ spc' = "returned"
    /\ UNCHANGED <<server, handlers, ports, calls, results>>
    /\ UNCHANGED wvars

\* server.wait_for_termination(): returns once the server has terminated
ServeWait ==
    /\ spc = "l26"
    /\ server = "terminated"
    /\ spc' = "returned"
    /\ UNCHANGED <<server, handlers, ports, calls, results>>
    /\ UNCHANGED wvars

\* the server is stopped from outside serve()
ServerTerminates ==
    /\ server = "started"
    /\ server' = "terminated"
    /\ UNCHANGED <<spc, handlers, ports, calls, results>>
    /\ UNCHANGED wvars

\* a client's request with message m reaches the started server
CallArrives(c, m) ==
    /\ server = "started"
    /\ Port \in ports
    /\ calls[c].pc = "idle"
    /\ calls' = [calls EXCEPT ![c] = [pc |-> "queued", request |-> m]]
    /\ UNCHANGED <<spc, server, handlers, ports, results>>
    /\ UNCHANGED wvars

\* the runtime hands the call to a free worker of the pool, which enters Check
Dispatch(c) ==
    /\ calls[c].pc = "queued"
    /\ "HealthCheck" \in handlers
    /\ Cardinality(Executing) < max_workers
    /\ calls' = [calls EXCEPT ![c].pc = "l16"]
    /\ UNCHANGED <<spc, server, handlers, ports, results>>
    /\ UNCHANGED wvars

\* result = HealthCheckResponse()
CheckNew(c) ==
    /\ calls[c].pc = "l16"
    /\ results' = [results EXCEPT ![ResultSlot(c)] = NewResponse]
    /\ calls' = [calls EXCEPT ![c].pc = "l17"]
    /\ UNCHANGED <<spc, server, handlers, ports>>
    /\ UNCHANGED wvars

\* result.status = HealthCheckResponse.SERVING
CheckSetStatus(c) ==
    /\ calls[c].pc = "l17"
    /\ results' = [results EXCEPT ![ResultSlot(c)].status = "SERVING"]
    /\ calls' = [calls EXCEPT ![c].pc = "l18"]
    /\ UNCHANGED <<spc, server, handlers, ports>>
    /\ UNCHANGED wvars

\* result.response_message = "Hello request_message=" + request.request_message
CheckSetMessage(c) ==
    /\ calls[c].pc = "l18"
    /\ results' = [results EXCEPT ![ResultSlot(c)].response_message =
                                      ResponseMessage(calls[c].request)]
    /\ calls' = [calls EXCEPT ![c].pc = "l19"]
    /\ UNCHANGED <<spc, server, handlers, ports>>
    /\ UNCHANGED wvars

\* return result: the response is sent, request and response are discarded
CheckReturn(c) ==
    /\ calls[c].pc = "l19"
    /\ results' = [results EXCEPT ![ResultSlot(c)] = NoResult]
    /\ calls' = [calls EXCEPT ![c] = [pc |-> "idle", request |-> <<>>]]
    /\ UNCHANGED <<spc, server, handlers, ports>>
    /\ UNCHANGED wvars

SNext ==
    \/ ServeCreateServer
    \/ ServeAddServicer
    \/ ServeAddPort
    \/ ServeAddPortFails
    \/ ServeStart
    \/ ServeWait
    \/ ServerTerminates
    \/ \E c \in CallIds, m \in Messages : CallArrives(c, m)
    \/ \E c \in CallIds : Dispatch(c)
    \/ \E c \in CallIds : CheckNew(c)
    \/ \E c \in CallIds : CheckSetStatus(c)
    \/ \E c \in CallIds : CheckSetMessage(c)
    \/ \E c \in CallIds : CheckReturn(c)

---------------------------------------------------------------------------
\* The two programs are separate processes: each specification runs one

Init == WInit /\ ServerOff

Next == WNext

Spec == Init /\ [][Next]_vars

InitServer == SInit /\ WrapperOff

NextServer == SNext

SpecServer == InitServer /\ [][NextServer]_vars

---------------------------------------------------------------------------
\* Properties of the wrapper (grpc_protoc.py), checked under Spec

\* an argument that begins with the two-character include marker
BeginsWithMarker(a) == Len(a) >= 2 /\ a[1] = "-" /\ a[2] = "I"

\* what follows the marker
PathOf(a) == SubSeq(a, 3, Len(a))

\* the number of entries of lst equal to p
Count(p, lst) == Cardinality({i \in 1..Len(lst) : lst[i] = p})

\* protoc.main has been entered
Invoked == wpc \in {"in_protoc", "returned", "exited"}

\* C2: the wrapper process ends with the status protoc.main returned,
\* whatever that status is.
C2_ExitStatusIsProtocStatus ==
    wpc = "exited" => exitStatus = protocRet

\* C3: protoc.main is invoked exactly once, with the arguments given to the
\* wrapper: the same arguments in the same order, none dropped, added or
\* rewritten.
C3_CompilerGetsOriginalArguments ==
    /\ Len(protocCalls) <= 1
    /\ ~Invoked => protocCalls = <<>>
    /\ Invoked => protocCalls = <<userArgs>>

C3_Witness ==
    /\ wpc = "exited"
    /\ Len(userArgs) = 2
    /\ BeginsWithMarker(userArgs[1])
    /\ ~BeginsWithMarker(userArgs[2])
    /\ protocCalls = <<userArgs>>

\* C4: when protoc.main is invoked, sys.path holds the absolute form of the
\* path of every argument beginning with -I, and sys.path is not changed
\* from the invocation on.
C4_PathsPresentAtInvocation ==
    /\ [](Invoked =>
            \A k \in 1..Len(userArgs) :
                BeginsWithMarker(userArgs[k]) =>
                    In(abspath(PathOf(userArgs[k])), syspath))
    /\ [][Invoked' => syspath' = syspath]_vars

C4_Witness ==
    /\ wpc = "in_protoc"
    /\ Len(syspath) = Len(syspath0) + 2
    /\ \A k \in 1..Len(userArgs) : BeginsWithMarker(userArgs[k])

\* C5: a path given to add_to_python_path two or more times, in the same or
\* in different spellings of one absolute path, has exactly one entry in
\* sys.path, and the second and later calls leave sys.path unchanged.
C5_AddedAtMostOnce ==
    /\ [](\A i, j \in 1..Len(called) :
            (i < j /\ abspath(called[i]) = abspath(called[j])) =>
                Count(abspath(called[i]), syspath) = 1)
    /\ [][(/\ Len(called') = Len(called) + 1
           /\ \E i \in 1..Len(called) :
                  abspath(called[i]) = abspath(called'[Len(called')]))
          => syspath' = syspath]_vars

C5_Witness ==
    /\ Len(called) >= 2
    /\ called[1] # called[2]
    /\ abspath(called[1]) = abspath(called[2])
    /\ ~In(abspath(called[1]), syspath0)
    /\ Count(abspath(called[1]), syspath) = 1

\* C6: when no entry of the process argument list begins with -I, sys.path
\* is what it was at process start, up to and including the invocation of
\* the compiler.
C6_NoMarkerNoChange ==
    (\A k \in 1..Len(argv) : ~BeginsWithMarker(argv[k])) => syspath = syspath0

C6_Witness ==
    /\ \A k \in 1..Len(argv) : ~BeginsWithMarker(argv[k])
    /\ Len(userArgs) = 2
    /\ userArgs[1][1] = "-"
    /\ wpc = "in_protoc"
    /\ syspath = syspath0

\* the position in sys.argv of the first -I argument that resolves to entry e
FirstArg(e) ==
    CHOOSE k \in 1..Len(argv) :
        /\ BeginsWithMarker(argv[k]) /\ abspath(PathOf(argv[k])) = e
        /\ \A j \in 1..(k - 1) :
               ~(BeginsWithMarker(argv[j]) /\ abspath(PathOf(argv[j])) = e)

\* C9: add_to_python_path is append-only: every step keeps the entries of
\* sys.path at their positions, lengthens it by at most one, and the new
\* entries stand at the end in the order of their -I arguments.
C9_AppendOnly ==
    /\ [][/\ Len(syspath) <= Len(syspath')
          /\ Len(syspath') <= Len(syspath) + 1
          /\ SubSeq(syspath', 1, Len(syspath)) = syspath]_vars
    /\ [](\A i, j \in (Len(syspath0) + 1)..Len(syspath) :
            i < j => FirstArg(syspath[i]) < FirstArg(syspath[j]))

C9_Witness ==
    /\ wpc = "exited"
    /\ Len(syspath) = Len(syspath0) + 2
    /\ SubSeq(syspath, 1, Len(syspath0)) = syspath0
    /\ Len(called) = 3

\* C10: sys.path gains an entry only for an argument that is the marker -I
\* followed by a path: a bare -I adds nothing, and sys.argv[0] is never
\* taken as an include argument.
C10_OnlyMarkerWithPath ==
    \A i \in 1..Len(syspath) :
        \/ In(syspath[i], syspath0)
        \/ \E k \in 1..Len(userArgs) :
               /\ BeginsWithMarker(userArgs[k])
               /\ Len(userArgs[k]) > 2
               /\ abspath(PathOf(userArgs[k])) = syspath[i]

---------------------------------------------------------------------------
\* Properties of the server (run_grpc_server.py), checked under SpecServer

\* the response an execution of Check is building
Response(c) == results[ResultSlot(c)]

\* what Check is to answer to message m
Expected(m) ==
    [status |-> "SERVING",
     response_message |->
         <<"H", "e", "l", "l", "o", " ", "r", "e", "q", "u", "e", "s", "t",
           "_", "m", "e", "s", "s", "a", "g", "e", "=">> \o m]

\* C1: for every request message M, Check returns status SERVING and the
\* response_message "Hello request_message=" + M; no execution of Check
\* ends otherwise.
C1_CheckResponse ==
    \A c \in CallIds :
        /\ calls[c].pc \in {"idle", "queued", "l16", "l17", "l18", "l19"}
        /\ calls[c].pc = "l19" => Response(c) = Expected(calls[c].request)

C1_Witness ==
    \E c \in CallIds :
        /\ calls[c].pc = "l19"
        /\ Len(calls[c].request) = 1
        /\ Response(c) = Expected(calls[c].request)

\* C7: concurrent executions of Check share no state: a step of one call
\* leaves the response another call is building as it was, so each call
\* returns the response to its own request under every interleaving.
C7_CallsIndependent ==
    /\ [][\A c \in CallIds :
            (calls[c].pc \in {"l17", "l18", "l19"} /\ calls'[c] = calls[c])
                => results'[ResultSlot(c)] = results[ResultSlot(c)]]_vars
    /\ [](\A c \in CallIds :
            calls[c].pc = "l19" => Response(c) = Expected(calls[c].request))

C7_Witness ==
    \E c, d \in CallIds :
        /\ c # d
        /\ calls[c].pc = "l19"
        /\ calls[d].pc = "l19"
        /\ calls[c].request # calls[d].request
        /\ Response(c) = Expected(calls[c].request)
        /\ Response(d) = Expected(calls[d].request)

\* C8: when the server is started the one health-check handler is
\* registered and port 50051 is bound; serve() returns only after the server
\* has terminated; no call is served while no handler is registered.
C8_ServeOrder ==
    /\ server \in {"started", "terminated"} =>
           (handlers = {"HealthCheck"} /\ ports = {50051})
    /\ spc = "returned" => server = "terminated"
    /\ \A c \in CallIds :
           calls[c].pc \in {"l16", "l17", "l18", "l19"} =>
               "HealthCheck" \in handlers

C8_Witness ==
    /\ spc = "returned"
    /\ server = "terminated"
    /\ handlers = {"HealthCheck"}
    /\ \E c \in CallIds : calls[c].pc = "l19"

=============================================================================
